---------------------------- MODULE Spec2Model ----------------------------
(***************************************************************************)
(* A state-machine model of the SciDB client shim (src/src/client.cpp).    *)
(*                                                                         *)
(* The shim is a flat C ABI over the SciDB client library: scidbconnect,   *)
(* scidbdisconnect, executeQuery, prepare_query, execute_prepared_query    *)
(* and completeQuery.  Each entry point is one action of the model.  The   *)
(* client library itself is external: every library call is modelled by    *)
(* its outcome (normal return or the kind of exception thrown) and by the  *)
(* values it hands back, all drawn nondeterministically from small sets.   *)
(*                                                                         *)
(* Pointers: 0 is NULL, 1..MaxObjs are heap addresses of QueryResult       *)
(* objects, WILD is the value of a pointer the caller never initialised.   *)
(***************************************************************************)
EXTENDS Integers, Sequences, FiniteSets, TLC

(***************************************************************************)
(* Program constants.                                                      *)
(***************************************************************************)
MAX_VARLEN == 4096

SHIM_CONNECTION_SUCCESSFUL == 0
SHIM_ERROR_CANT_CONNECT == -1
SHIM_ERROR_AUTHENTICATION == -2

SHIM_PREPARATION_ERROR == -2
SHIM_TRANSACTION_ROLLBACK == -3
SHIM_EXECUTION_ERROR == -4

(***************************************************************************)
(* Bounds of the model.                                                    *)
(***************************************************************************)
\* heap addresses available for QueryResult objects
MaxObjs == 2
\* the library assigns query ids 0..MaxQueryId (0 is the shim's error value)
MaxQueryId == 1
\* the library assigns coordinator ids 0..MaxCoordId
MaxCoordId == 0
\* connection handles the library can hand out
MaxConns == 1
\* how many characters past the buffer's capacity an exception text may run
MaxOver == 1

NULL == 0
WILD == -1
ObjIds == 1 .. MaxObjs
ConnIds == 1 .. MaxConns
QueryIds == 0 .. MaxQueryId
CoordIds == 0 .. MaxCoordId

Min(a, b) == IF a <= b THEN a ELSE b

(***************************************************************************)
(* Texts.  A text is [src, len]: src names where the characters come from  *)
(* ("what": an exception's what(), "alloc" and "invalid": the two string   *)
(* literals of the shim, "none": the caller's cleared buffer) and len is   *)
(* the number of characters of it that are present.                        *)
(***************************************************************************)
WhatLens == {1} \cup (MAX_VARLEN - 1 .. MAX_VARLEN - 1 + MaxOver)
Whats == [src : {"what"}, len : WhatLens]
NoText == [src |-> "none", len |-> 0]
AllocText == [src |-> "alloc", len |-> 32]
InvalidText == [src |-> "invalid", len |-> 29]

\* (variant for C3: the text copied without the size limit, as sprintf would)
snprintf_unbounded(text) == text

\* snprintf(err, MAX_VARLEN, "%s", text): at most MAX_VARLEN - 1 characters
\* are copied, followed by the terminating NUL.
snprintf(text) == [src |-> text.src, len |-> Min(text.len, MAX_VARLEN - 1)]

(***************************************************************************)
(* The status-code table of client.h: the code defined for each failure    *)
(* outcome of the lifecycle.                                               *)
(***************************************************************************)
FailureStatus ==
  [authentication |-> SHIM_ERROR_AUTHENTICATION,
   connection     |-> SHIM_ERROR_CANT_CONNECT,
   preparation    |-> SHIM_PREPARATION_ERROR,
   execution      |-> SHIM_EXECUTION_ERROR,
   rollback       |-> SHIM_TRANSACTION_ROLLBACK]

(***************************************************************************)
(* Outcomes of library calls.                                              *)
(*   ok          normal return                                             *)
(*   scidb_auth  scidb::Exception, long error code AUTHENTICATION_ERROR    *)
(*   scidb_other scidb::Exception with any other long error code           *)
(*   rollback    scidb::RollbackException                                  *)
(*   std         a std::exception that is not a scidb::Exception           *)
(***************************************************************************)
Throws == {"scidb_auth", "scidb_other", "rollback", "std"}
Outcomes == {"ok"} \cup Throws

VARIABLES
  sessions,   \* library: the connection handles that are open
  con,        \* caller: the handle returned by the last scidbconnect
  status,     \* caller: the int that scidbconnect's status points to
  heap,       \* the QueryResult objects: heap[o].live, and the fields
  pq,         \* caller: the struct prep handed to the prepared-query calls
  err,        \* caller: the MAX_VARLEN error buffer
  last,       \* the last shim call: what it was given and what it returned
  doubleFree, \* some delete was applied to an object that was not allocated
  useAfterFree, \* some access went to an object that was not allocated
  crashed     \* the process was ended by a fault

vars == <<sessions, con, status, heap, pq, err, last, doubleFree,
          useAfterFree, crashed>>

\* The memory at a heap address: whether a QueryResult is allocated there
\* and, of its fields, the two the shim reads back in a later call:
\* queryID.isValid() and autoCommit.  (queryID's two numbers are read once,
\* in the call that had the library set them; fetch is only ever written,
\* for the library to read.)  FreshObj is the memory of an address that
\* holds no object; New gives a default-constructed QueryResult.
FreshObj == [live |-> FALSE, valid |-> FALSE, autoCommit |-> FALSE]

NoId == [queryid |-> 0, coordinatorid |-> 0]

\* The record of a shim call.
\*   op         the entry point
\*   entry      pq->queryresult as the call found it
\*   alloc      what new returned (prepare_query): "ok", "null", "bad_alloc"
\*   lib        the outcome of the library call that ended the try block
\*   what       the text of the exception thrown, if one was
\*   ret        the value returned (executeQuery: in ret.queryid)
\*   errWritten whether the call wrote to err
\*   log        the library calls made, in order
\*   ub         whether the call dereferenced NULL or a wild pointer
\*   outs       executeQuery: what the library does to each of its calls
\*   props      scidbconnect: the session properties handed to connect
NoProps == [cred |-> "none", admin |-> FALSE]

NoCall == [op |-> "none", entry |-> NULL, lib |-> "none", alloc |-> "none",
           what |-> NoText, ret |-> NoId, errWritten |-> FALSE, log |-> <<>>,
           ub |-> FALSE, outs |-> <<>>, props |-> NoProps]

\* one call into the library: its name, the connection and the query id it
\* is about (connect: the handle it returns; prepareQuery: the id it assigns)
LibCall(name, c, qid) == [call |-> name, con |-> c, qid |-> qid]

\* the outcomes of a query call of the library, as the shim's catch clauses
\* tell them apart: a RollbackException, or any other std::exception (a
\* scidb::Exception included)
QueryOutcomes == {"ok", "rollback", "std"}

Init ==
  /\ sessions = {}
  /\ con = NULL
  /\ status \in {0, -9}
  /\ heap = [o \in ObjIds |-> FreshObj]
  /\ pq \in [queryid : {NoId}, queryresult : {NULL, WILD}]
  /\ err = NoText
  /\ last = NoCall
  /\ doubleFree = FALSE
  /\ useAfterFree = FALSE
  /\ crashed = FALSE

(***************************************************************************)
(* Heap helpers.                                                           *)
(***************************************************************************)
Live(h, p) == p \in ObjIds /\ h[p].live

\* new scidb::QueryResult() at address q
New(h, q) == [h EXCEPT ![q] = [FreshObj EXCEPT !.live = TRUE]]

\* (variant for C5: the delete left out)
Delete_omitted(h, p) == h

\* delete p; deleting NULL does nothing
Delete(h, p) == IF p \in ObjIds THEN [h EXCEPT ![p] = FreshObj] ELSE h

\* whether delete p / an access through p goes to memory that holds no object
BadDelete(h, p) == p \in ObjIds /\ ~h[p].live
BadAccess(h, p) == p \in ObjIds /\ ~h[p].live

(***************************************************************************)
(* scidbconnect                                                            *)
(***************************************************************************)
\* (variant for C1: the long error code not looked at)
ConnectStatus_nocode(outcome) ==
  IF outcome = "ok" THEN SHIM_CONNECTION_SUCCESSFUL
  ELSE SHIM_ERROR_CANT_CONNECT

\* the status the try block or the catch blocks store through status
ConnectStatus(outcome) ==
  CASE outcome = "ok" -> SHIM_CONNECTION_SUCCESSFUL
    [] outcome = "scidb_auth" -> SHIM_ERROR_AUTHENTICATION
    [] OTHER -> SHIM_ERROR_CANT_CONNECT

\* the value of conn at the return statement
ConnectReturn(outcome, handle) == IF outcome = "ok" THEN handle ELSE NULL

\* the session properties built at lines 60-76; a user name or a password
\* is 0 for a NULL pointer
SessionProps(username, password, isAdmin) ==
  [cred |-> IF username = NULL \/ password = NULL THEN "callback" ELSE "cred",
   admin |-> isAdmin # 0]

scidbconnect ==
  /\ ~crashed
  /\ \E outcome \in Outcomes, h \in ConnIds, username \in {NULL, 1},
        password \in {NULL, 1}, isAdmin \in {0, 1} :
     \E w \in (IF outcome = "ok" THEN {NoText} ELSE Whats) :
       /\ outcome = "ok" => h \notin sessions
       /\ outcome # "ok" => h = 1
       /\ sessions' = IF outcome = "ok" THEN sessions \cup {h} ELSE sessions
       /\ con' = ConnectReturn(outcome, h)
       /\ status' = ConnectStatus(outcome)
       /\ last' = [NoCall EXCEPT !.op = "scidbconnect", !.lib = outcome,
                                 !.what = w,
                                 !.props =
                                   SessionProps(username, password, isAdmin),
                                 !.log = <<LibCall("connect",
                                     IF outcome = "ok" THEN h ELSE NULL,
                                     NoId)>>]
       /\ UNCHANGED <<heap, pq, err, doubleFree, useAfterFree, crashed>>

(***************************************************************************)
(* scidbdisconnect: the library's disconnect, any std::exception swallowed *)
(***************************************************************************)
scidbdisconnect ==
  /\ ~crashed
  /\ \E outcome \in Outcomes :
       /\ sessions' = IF outcome = "ok" THEN sessions \ {con} ELSE sessions
       /\ last' = [NoCall EXCEPT !.op = "scidbdisconnect", !.lib = outcome,
                                 !.log = <<LibCall("disconnect", con, NoId)>>]
       /\ UNCHANGED <<con, status, heap, pq, err, doubleFree, useAfterFree,
                      crashed>>

(***************************************************************************)
(* executeQuery: prepare, execute and complete in one call, on a           *)
(* QueryResult that lives on the stack.                                    *)
(***************************************************************************)
OneShotSteps == <<"prepareQuery", "executeQuery", "completeQuery">>

\* outs[i] is the outcome the library gives the i-th call of the try block,
\* should control reach it.  The calls made are those up to and including
\* the first that throws.
\* (variant for C7: no call skipped after a throw)
CallsMade_all(outs, i) == Len(outs)

RECURSIVE CallsMade(_, _)
CallsMade(outs, i) ==
  IF i >= Len(outs) \/ outs[i] # "ok" THEN i ELSE CallsMade(outs, i + 1)

\* libId is queryResult.queryID as the library's prepareQuery sets it
executeQuery_run(c, e, outs, libId, what) ==
  LET n == CallsMade(outs, 1)
      threw == outs[n] # "ok"
  IN [ret |-> IF threw THEN 0 ELSE libId.queryid,
      err |-> IF threw THEN snprintf(what) ELSE e,
      errWritten |-> threw,
      lib |-> outs[n],
      log |-> [i \in 1 .. n |->
                 LibCall(OneShotSteps[i], c,
                         IF i = 3 THEN libId ELSE NoId)]]

AllOk(outs) == \A i \in 1 .. Len(outs) : outs[i] = "ok"

\* what the library may do to the three calls; after a call that throws the
\* later ones are not reached, and are listed as "ok"
OneShotOutcomes ==
  {o \in [1 .. 3 -> QueryOutcomes] :
     \A i \in 1 .. 3 : o[i] # "ok" => \A j \in (i + 1) .. 3 : o[j] = "ok"}

executeQuery ==
  /\ ~crashed
  /\ \E outs \in OneShotOutcomes :
     \E id \in (IF AllOk(outs) THEN QueryIds ELSE {0}),
        coord \in (IF AllOk(outs) THEN CoordIds ELSE {0}),
        w \in (IF AllOk(outs) THEN {NoText} ELSE Whats) :
       LET r == executeQuery_run(con, err,  outs,
                     [queryid |-> id, coordinatorid |-> coord], w)
       IN /\ err' = r.err
          /\ last' = [NoCall EXCEPT !.op = "executeQuery", !.lib = r.lib,
                         !.outs = outs,
                         !.what = w, !.ret = [NoId EXCEPT !.queryid = r.ret],
                         !.errWritten = r.errWritten, !.log = r.log]
          /\ UNCHANGED <<sessions, con, status, heap, pq, doubleFree,
                         useAfterFree, crashed>>

(***************************************************************************)
(* prepare_query                                                           *)
(***************************************************************************)
\* alloc: what new returned: "ok" (the address q) or "null".  lq is what the
\* library's prepareQuery writes into *q when it returns normally.
prepare_query_run(p, h, e, c, alloc, q, outcome, lq, what) ==
  IF alloc = "null"
  THEN [pq |-> p, heap |-> h, err |-> snprintf(AllocText),
        errWritten |-> TRUE, log |-> <<>>]
  ELSE LET h1 == New(h, q)
           h2 == [h1 EXCEPT ![q].valid = lq.valid]
       IN IF outcome = "ok"
          THEN [pq |-> [queryid |-> [queryid |-> lq.id,
                                     coordinatorid |-> lq.coord],
                        queryresult |-> q],
                heap |-> h2, err |-> e, errWritten |-> FALSE,
                log |-> <<LibCall("prepareQuery", c,
                            [queryid |-> lq.id, coordinatorid |-> lq.coord])>>]
          ELSE [pq |-> [p EXCEPT !.queryresult = NULL],
                heap |-> Delete(h1, q), err |-> snprintf(what),
                errWritten |-> TRUE,
                log |-> <<LibCall("prepareQuery", c, NoId)>>]

\* Addresses are opaque to the shim, so the allocator is taken to hand out
\* the lowest free one (which also reuses a freed address at once); 0 when
\* the heap is full.
FirstFree(h) ==
  IF \A o \in ObjIds : h[o].live THEN 0
  ELSE CHOOSE o \in ObjIds :
         ~h[o].live /\ \A o2 \in ObjIds : ~h[o2].live => o <= o2

LibQueryIds == [id : QueryIds, coord : CoordIds, valid : BOOLEAN]

prepare_query ==
  /\ ~crashed
  /\ \/ \* new throws std::bad_alloc, which nothing in the shim catches
        /\ crashed' = TRUE
        /\ last' = [NoCall EXCEPT !.op = "prepare_query",
                       !.entry = pq.queryresult, !.alloc = "bad_alloc"]
        /\ UNCHANGED <<sessions, con, status, heap, pq, err, doubleFree,
                       useAfterFree>>
     \/ \E alloc \in {"ok", "null"}, q \in ObjIds, outcome \in QueryOutcomes :
        \E lq \in (IF alloc = "ok" /\ outcome = "ok"
                   THEN LibQueryIds
                   ELSE {[id |-> 0, coord |-> 0, valid |-> FALSE]}),
           w \in (IF alloc = "ok" /\ outcome # "ok" THEN Whats ELSE {NoText}) :
          LET r == prepare_query_run(pq, heap, err, con, alloc, q, outcome,
                                     lq, w)
          IN /\ alloc = "ok" => q = FirstFree(heap)
             /\ alloc = "null" => (outcome = "ok" /\ q = 1)
             /\ pq' = r.pq
             /\ heap' = r.heap
             /\ err' = r.err
             /\ last' = [NoCall EXCEPT !.op = "prepare_query",
                            !.entry = pq.queryresult, !.alloc = alloc,
                            !.lib = IF alloc = "ok" THEN outcome ELSE "none",
                            !.what = w, !.errWritten = r.errWritten,
                            !.log = r.log]
             /\ UNCHANGED <<sessions, con, status, doubleFree, useAfterFree,
                            crashed>>

(***************************************************************************)
(* execute_prepared_query                                                  *)
(***************************************************************************)
SetAutoCommit(h, q, v) ==
  IF q \in ObjIds THEN [h EXCEPT ![q].autoCommit = v] ELSE h

\* The library call of an execute, which is handed the fetch flag in *q.
ExecuteCall(c, fetch) ==
  <<LibCall(IF fetch THEN "executeQuery(fetch)" ELSE "executeQuery", c, NoId)>>

\* lines 206-208: the try block ran to its end.  ac is the autoCommit flag
\* the library's executeQuery leaves in *q.
ExecuteReturned(p, h, e, c, fetch, ac) ==
  [ret |-> p.queryid, pq |-> p, heap |-> SetAutoCommit(h, p.queryresult, ac),
   err |-> e, errWritten |-> FALSE, deleted |-> FALSE,
   log |-> ExecuteCall(c, fetch)]

\* lines 209-219: catch (scidb::RollbackException const&)
ExecuteRolledBack(p, h, e, c, fetch) ==
  [ret |-> p.queryid, pq |-> [p EXCEPT !.queryresult = NULL],
   heap |-> Delete(h, p.queryresult), err |-> e, errWritten |-> FALSE,
   deleted |-> TRUE, log |-> ExecuteCall(c, fetch)]

\* lines 220-225: catch (std::exception const&); qid.coordinatorid is still
\* the 0 of line 197
ExecuteFailed(p, h, e, c, fetch, what) ==
  [ret |-> [queryid |-> 0, coordinatorid |-> 0],
   pq |-> [p EXCEPT !.queryresult = NULL],
   heap |-> Delete(h, p.queryresult), err |-> snprintf(what),
   errWritten |-> TRUE, deleted |-> TRUE, log |-> ExecuteCall(c, fetch)]

\* (variant for C6: no catch clause for RollbackException)
execute_prepared_query_run_nocatch(p, h, e, c, fetch, outcome, ac, what) ==
  IF outcome = "ok" THEN ExecuteReturned(p, h, e, c, fetch, ac)
  ELSE ExecuteFailed(p, h, e, c, fetch, what)

\* The body from line 198 on, for q # NULL.
execute_prepared_query_run(p, h, e, c, fetch, outcome, ac, what) ==
  CASE outcome = "ok" -> ExecuteReturned(p, h, e, c, fetch, ac)
    [] outcome = "rollback" -> ExecuteRolledBack(p, h, e, c, fetch)
    [] OTHER -> ExecuteFailed(p, h, e, c, fetch, what)

execute_prepared_query ==
  /\ ~crashed
  /\ LET q == pq.queryresult
         call == [NoCall EXCEPT !.op = "execute_prepared_query", !.entry = q,
                                !.ub = (q \notin ObjIds)]
     IN \/ \* q->fetch = ... through NULL or a wild pointer: the store faults
           /\ q \notin ObjIds
           /\ crashed' = TRUE
           /\ last' = call
           /\ UNCHANGED <<sessions, con, status, heap, pq, err, doubleFree,
                          useAfterFree>>
        \/ \* the store through NULL does not fault, and the check at line
           \* 200 is reached
           /\ q = NULL
           /\ err' = snprintf(InvalidText)
           /\ last' = [call EXCEPT !.errWritten = TRUE]
           /\ UNCHANGED <<sessions, con, status, heap, pq, doubleFree,
                          useAfterFree, crashed>>
        \/ \* q is an address (a wild one: the store lands somewhere, and
           \* the call goes on)
           /\ q # NULL
           /\ \E fetch \in BOOLEAN, outcome \in QueryOutcomes :
              \E ac \in (IF outcome = "ok" THEN BOOLEAN ELSE {FALSE}),
                 w \in (IF outcome \in {"ok", "rollback"}
                        THEN {NoText} ELSE Whats) :
                LET r == execute_prepared_query_run(pq, heap, err, con,
                                                    fetch, outcome, ac, w)
                IN /\ pq' = r.pq
                   /\ heap' = r.heap
                   /\ err' = r.err
                   /\ useAfterFree' = (useAfterFree \/ BadAccess(heap, q))
                   /\ doubleFree' =
                        (doubleFree \/ (r.deleted /\ BadDelete(heap, q)))
                   /\ last' = [call EXCEPT !.lib = outcome, !.what = w,
                                  !.ret = r.ret,
                                  !.errWritten = r.errWritten, !.log = r.log]
                   /\ UNCHANGED <<sessions, con, status, crashed>>

(***************************************************************************)
(* completeQuery                                                           *)
(***************************************************************************)
completeQueryInternal(qid, c, e, outcome, what) ==
  [err |-> IF outcome = "ok" THEN e ELSE snprintf(what),
   errWritten |-> outcome # "ok",
   log |-> <<LibCall("completeQuery", c, qid)>>]

\* valid and autoCommit are qr->queryID.isValid() and qr->autoCommit as read
\* at line 248
completeQuery_run(p, h, e, c, valid, autoCommit, outcome, what) ==
  LET qr == p.queryresult
  IN IF ~valid \/ autoCommit
     THEN [pq |-> [p EXCEPT !.queryresult = NULL], heap |-> Delete(h, qr),
           err |-> e, errWritten |-> FALSE, log |-> <<>>]
     ELSE LET r == completeQueryInternal(p.queryid, c, e, outcome, what)
          IN [pq |-> [p EXCEPT !.queryresult = NULL],
              heap |-> Delete(h, qr), err |-> r.err,
              errWritten |-> r.errWritten, log |-> r.log]

completeQuery ==
  /\ ~crashed
  /\ LET qr == pq.queryresult
         call == [NoCall EXCEPT !.op = "completeQuery", !.entry = qr,
                                !.ub = (qr \notin ObjIds)]
     IN \/ \* the read through NULL or a wild pointer faults
           /\ qr \notin ObjIds
           /\ crashed' = TRUE
           /\ last' = call
           /\ UNCHANGED <<sessions, con, status, heap, pq, err, doubleFree,
                          useAfterFree>>
        \/ \* the read goes through: the object's fields, or, through NULL
           \* or a wild pointer, whatever the memory holds
           \E valid \in BOOLEAN, autoCommit \in BOOLEAN,
              outcome \in QueryOutcomes :
           \E w \in (IF outcome = "ok" \/ ~valid \/ autoCommit
                     THEN {NoText} ELSE Whats) :
             LET r == completeQuery_run(pq, heap, err, con, valid,
                                        autoCommit, outcome, w)
                 called == r.log # <<>>
             IN /\ qr \in ObjIds =>
                     (valid = heap[qr].valid /\ autoCommit = heap[qr].autoCommit)
                /\ ~called => outcome = "ok"
                /\ pq' = r.pq
                /\ heap' = r.heap
                /\ err' = r.err
                /\ useAfterFree' = (useAfterFree \/ BadAccess(heap, qr))
                /\ doubleFree' = (doubleFree \/ BadDelete(heap, qr))
                /\ last' = [call EXCEPT
                               !.lib = IF called THEN outcome ELSE "none",
                               !.what = w, !.errWritten = r.errWritten,
                               !.log = r.log]
                /\ UNCHANGED <<sessions, con, status, crashed>>

Next ==
  \/ scidbconnect
  \/ scidbdisconnect
  \/ executeQuery
  \/ prepare_query
  \/ execute_prepared_query
  \/ completeQuery

Spec == Init /\ [][Next]_vars

(***************************************************************************)
(* The two halves of the interface share no state but the handle con, so   *)
(* each is also checked on its own: the connection calls from Init, the    *)
(* query calls from the state a successful scidbconnect leaves.            *)
(***************************************************************************)
ConnNext ==
  \/ scidbconnect
  \/ scidbdisconnect

ConnSpec == Init /\ [][ConnNext]_vars

Connected ==
  /\ con = 1
  /\ sessions = {con}
  /\ status = SHIM_CONNECTION_SUCCESSFUL
  /\ heap = [o \in ObjIds |-> FreshObj]
  /\ pq \in [queryid : {NoId}, queryresult : {NULL, WILD}]
  /\ err = NoText
  /\ last = NoCall
  /\ doubleFree = FALSE
  /\ useAfterFree = FALSE
  /\ crashed = FALSE

QueryNext ==
  \/ executeQuery
  \/ prepare_query
  \/ execute_prepared_query
  \/ completeQuery

QuerySpec == Connected /\ [][QueryNext]_vars

(***************************************************************************)
(*                            The properties                               *)
(***************************************************************************)
Returned(op) == last.op = op /\ ~crashed

\* what a text of length n leaves in a buffer of MAX_VARLEN characters
Copied(text) ==
  [src |-> text.src, len |-> IF text.len < 4096 THEN text.len ELSE 4095]

\* C1: scidbconnect sets *status and its return value together: a normal
\* return of connect gives status 0 and the library's handle; a library
\* exception with the authentication error code gives -2 and NULL; any
\* other exception gives -1 and NULL; a non-zero status never comes with a
\* non-NULL return.
C1_ConnectOutcome ==
  Returned("scidbconnect") =>
    /\ last.lib = "ok" =>
         status = 0 /\ con = last.log[1].con /\ con \in sessions
    /\ last.lib = "scidb_auth" => status = -2 /\ con = NULL
    /\ last.lib \in {"scidb_other", "rollback", "std"} =>
         status = -1 /\ con = NULL
    /\ status # 0 => con = NULL

C1_Witness ==
  /\ Returned("scidbconnect")
  /\ last.lib = "scidb_auth"
  /\ status = -2
  /\ con = NULL

\* C2: the status codes of the five failure outcomes (authentication,
\* connection, preparation, execution, rollback) are all negative and
\* pairwise different, so that the integer a failed call reports names its
\* outcome among the five.  Stated of the status scidbconnect reports.
ConnectFailure ==
  IF last.lib = "scidb_auth" THEN "authentication" ELSE "connection"

C2_DistinctNegative ==
  Returned("scidbconnect") /\ last.lib # "ok" =>
    /\ status = FailureStatus[ConnectFailure]
    /\ \A a \in DOMAIN FailureStatus :
         /\ FailureStatus[a] < 0
         /\ a # ConnectFailure => FailureStatus[a] # status

\* C3 as stated: every failure outcome and the rollback outcome comes with
\* text written to the caller's error buffer during the call.  (Calls on a
\* struct prep that holds no prepared query are left aside.)
FailureOutcome ==
  \/ Returned("scidbconnect") /\ last.lib # "ok"
  \/ Returned("prepare_query") /\ (last.alloc = "null" \/ last.lib # "ok")
  \/ /\ Returned("execute_prepared_query")
     /\ last.entry \in ObjIds
     /\ last.lib \in {"rollback", "std"}
  \/ Returned("executeQuery") /\ last.lib # "ok"
  \/ /\ Returned("completeQuery")
     /\ last.entry \in ObjIds
     /\ last.lib \in {"rollback", "std"}

C3_TextOnEveryFailure == FailureOutcome => last.errWritten

\* C3 as amended: whenever a library call made by prepare_query,
\* executeQuery or completeQuery throws, or the library's execute throws
\* anything but a RollbackException in execute_prepared_query, the call
\* writes the first MAX_VARLEN - 1 characters of the exception's text to
\* err; the rollback outcome of execute_prepared_query writes nothing.
C3_TextOnCaughtException ==
  /\ ( \/ /\ \/ Returned("prepare_query")
             \/ Returned("executeQuery")
             \/ Returned("completeQuery")
          /\ last.lib \in {"rollback", "std"}
       \/ Returned("execute_prepared_query") /\ last.lib = "std" )
     => last.errWritten /\ err = Copied(last.what)
  /\ Returned("execute_prepared_query") /\ last.lib = "rollback"
     => ~last.errWritten

C3_Witness ==
  /\ Returned("execute_prepared_query")
  /\ last.entry \in ObjIds
  /\ last.lib = "std"
  /\ last.what.len = 4096
  /\ err = [src |-> "what", len |-> 4095]

\* C4: on every return path of prepare_query either queryresult is non-NULL
\* with the library's query id and coordinator id in queryid and err not
\* written, or err is written and queryresult is NULL.
C4_PrepareContract ==
  Returned("prepare_query") =>
    \/ /\ Live(heap, pq.queryresult)
       /\ Len(last.log) = 1
       /\ pq.queryid = last.log[1].qid
       /\ ~last.errWritten
    \/ /\ last.errWritten
       /\ pq.queryresult = NULL

OutcomeReadOff(queryid, queryresult) ==
  IF queryresult # NULL THEN "ok"
  ELSE IF queryid # 0 THEN "rollback" ELSE "std"

C6_ExecuteResult ==
  Returned("execute_prepared_query") /\ last.entry \in ObjIds =>
    /\ last.lib = "ok" => last.ret = pq.queryid /\ pq.queryresult # NULL
    /\ last.lib = "rollback" => last.ret = pq.queryid /\ pq.queryresult = NULL
    /\ last.lib = "std" =>
         /\ last.ret.queryid = 0
         /\ last.errWritten
         /\ pq.queryresult = NULL
    /\ pq.queryid.queryid # 0 =>
         OutcomeReadOff(last.ret.queryid, pq.queryresult) = last.lib

C6_Witness ==
  /\ Returned("execute_prepared_query")
  /\ last.entry \in ObjIds
  /\ last.lib = "rollback"
  /\ pq.queryid.queryid # 0
  /\ last.ret = pq.queryid
  /\ pq.queryresult = NULL

\* C7: executeQuery calls prepareQuery, executeQuery and completeQuery in
\* that order on the connection it was given; it returns the library's
\* query id only if all three returned normally; if one throws it returns 0
\* with the exception's text in err and makes none of the later calls.
C7_OneShot ==
  Returned("executeQuery") =>
    LET n == Len(last.log)
    IN /\ n \in 1 .. 3
       /\ \A i \in 1 .. n :
            /\ last.log[i].call = OneShotSteps[i]
            /\ last.log[i].con = con
            /\ \A j \in 1 .. (i - 1) : last.outs[j] = "ok"
       /\ IF \A i \in 1 .. 3 : last.outs[i] = "ok"
          THEN /\ n = 3
               /\ last.ret.queryid = last.log[3].qid.queryid
               /\ ~last.errWritten
          ELSE /\ last.ret.queryid = 0
               /\ last.errWritten
               /\ err = Copied(last.what)
               /\ last.outs[n] # "ok"

C7_Witness ==
  /\ Returned("executeQuery")
  /\ last.outs[1] = "ok"
  /\ last.outs[2] = "std"
  /\ Len(last.log) = 2
  /\ last.ret.queryid = 0
  /\ last.errWritten

\* C8: over any sequence of prepare_query, execute_prepared_query and
\* completeQuery calls, no QueryResult is freed twice or used after it was
\* freed; after each call returns pq->queryresult is NULL or points to an
\* allocated QueryResult; and after a completeQuery, or an execute that
\* failed or was rolled back, no QueryResult is left allocated.
C8_Lifetime ==
  /\ ~doubleFree
  /\ ~useAfterFree
  /\ ( \/ Returned("prepare_query")
       \/ Returned("execute_prepared_query")
       \/ Returned("completeQuery") )
     => pq.queryresult = NULL \/ Live(heap, pq.queryresult)
  /\ ( \/ Returned("completeQuery")
       \/ Returned("execute_prepared_query") /\ last.lib \in {"rollback", "std"} )
     => \A o \in ObjIds : ~heap[o].live

=============================================================================
